---- MODULE Spec2Model ----
(***************************************************************************)
(* A model of kotlin_project_setup.py: the KotlinProjectSetup generator,   *)
(* which creates a directory tree and writes six text files under an       *)
(* output root derived from a project name and a package identifier.       *)
(*                                                                         *)
(* Text that the program takes apart (name, package, relative paths) is a  *)
(* sequence of tokens in which "/" and "." are always tokens of their own; *)
(* Str flattens it to the string it stands for.  A file's content is the   *)
(* sequence of its lines, each ended by a newline in the file.  A path of  *)
(* the filesystem is the sequence of its components from the root "/".     *)
(***************************************************************************)
EXTENDS Integers, Sequences, FiniteSets, TLC

VARIABLES
  name,         \* --name, self.name
  package,      \* --package, self.package
  package_path, \* self.package_path
  output_dir,   \* self.output_dir, a pathlib path
  pc,           \* position in main()/setup()
  i,            \* create_structure: the directories handled so far
  k,            \* the _write_file calls completed so far
  error,        \* the exception propagating out of setup(), or None
  dirs,         \* filesystem: the directories
  files,        \* filesystem: file path -> content
  stdout,       \* the lines printed
  ops,          \* the current run's completed mkdir and write calls, in order
  start,        \* the filesystem when the current run started
  prev          \* what the previous completed run left

vars == << name, package, package_path, output_dir, pc, i, k, error,
           dirs, files, stdout, ops, start, prev >>

None == "None"

\* ------------------------------------------------------------------ bounds
\* packages have 0..MaxSegs dot-separated segments
MaxSegs == 3
\* the deepest name of the form ../../..(MaxUp times)../x
MaxUp == 6

\* ------------------------------------------------------- class constants
GRADLE_VERSION == "8.5"
KOTLIN_VERSION == "1.9.21"
COMPOSE_BOM == "2024.01.00"
MIN_SDK == 24
TARGET_SDK == 34

\* ------------------------------------------------------------------ text
RECURSIVE Str(_)
Str(s) == IF s = << >> THEN "" ELSE Head(s) \o Str(Tail(s))

\* str.replace(old, new): every occurrence
Replace(s, old, new) == [j \in 1..Len(s) |-> IF s[j] = old THEN new ELSE s[j]]

\* ----------------------------------------------------------------- paths
\* pathlib's parse of a string: empty and "." components are dropped, ".."
\* components are kept, a leading "/" makes the path absolute
IsAbs(s) == s # << >> /\ s[1] = "/"

Keep(acc, seg) == IF seg = "" \/ seg = "." THEN acc ELSE Append(acc, seg)

RECURSIVE Scan(_, _, _, _)
Scan(s, j, seg, acc) ==
  IF j > Len(s) THEN Keep(acc, seg)
  ELSE IF s[j] = "/" THEN Scan(s, j + 1, "", Keep(acc, seg))
  ELSE Scan(s, j + 1, seg \o s[j], acc)

Parts(s) == Scan(s, 1, "", << >>)

Path(s) == [abs |-> IsAbs(s), parts |-> Parts(s)]

\* pathlib's p / s: an absolute right operand replaces the left one
Join(p, s) ==
  IF IsAbs(s) THEN Path(s) ELSE [abs |-> p.abs, parts |-> p.parts \o Parts(s)]

\* pathlib's p.parent: lexical, the last component dropped
Parent(p) ==
  IF p.parts = << >> THEN p
  ELSE [p EXCEPT !.parts = SubSeq(p.parts, 1, Len(p.parts) - 1)]

\* the process's working directory
Cwd == << "home" >>

\* the operating system's resolution of a path whose directories exist:
\* ".." steps to the parent, and the parent of "/" is "/"
RECURSIVE Walk(_, _)
Walk(at, parts) ==
  IF parts = << >> THEN at
  ELSE IF Head(parts) = ".."
       THEN Walk(IF at = << >> THEN at ELSE SubSeq(at, 1, Len(at) - 1), Tail(parts))
       ELSE Walk(Append(at, Head(parts)), Tail(parts))

Resolve(p) == Walk(IF p.abs THEN << >> ELSE Cwd, p.parts)

\* str(path)
RECURSIVE JoinSlash(_)
JoinSlash(parts) ==
  IF parts = << >> THEN ""
  ELSE IF Len(parts) = 1 THEN parts[1]
  ELSE parts[1] \o "/" \o JoinSlash(Tail(parts))

PathStr(p) ==
  IF p.abs THEN "/" \o JoinSlash(p.parts)
  ELSE IF p.parts = << >> THEN "." ELSE JoinSlash(p.parts)

IsPrefix(a, b) == Len(a) <= Len(b) /\ SubSeq(b, 1, Len(a)) = a

\* ------------------------------------------------------------ filesystem
\* Path.mkdir(parents=True, exist_ok=...): the components of p are visited
\* from the first to the last, at being the directory reached so far and
\* made telling whether this call has created one; a missing component is
\* created, and the last one raises when it exists and exist_ok is False.
\* A component that is a file raises: NotADirectoryError from the first
\* os.mkdir when nothing before it was missing, FileExistsError otherwise.
\* failAt > 0 is the component at which the operating system refuses
\* (permission, disk): what was created before it stays.
RECURSIVE MkdirFrom(_, _, _, _, _, _, _, _)
MkdirFrom(ds, fs, at, parts, n, made, exist_ok, failAt) ==
  IF n > Len(parts) THEN [dirs |-> ds, err |-> None]
  ELSE LET loc == Walk(at, << parts[n] >>)
       IN  IF n = failAt THEN [dirs |-> ds, err |-> "OSError"]
           ELSE IF loc \in DOMAIN fs
                THEN [dirs |-> ds,
                      err |-> IF made \/ n = Len(parts) THEN "FileExistsError"
                              ELSE "NotADirectoryError"]
           ELSE IF loc \in ds
                THEN IF n = Len(parts) /\ ~exist_ok
                     THEN [dirs |-> ds, err |-> "FileExistsError"]
                     ELSE MkdirFrom(ds, fs, loc, parts, n + 1, made, exist_ok, failAt)
                ELSE MkdirFrom(ds \cup {loc}, fs, loc, parts, n + 1, TRUE, exist_ok, failAt)

Mkdir(ds, fs, p, exist_ok, failAt) ==
  IF p.parts = << >>
  THEN [dirs |-> ds, err |-> IF exist_ok THEN None ELSE "FileExistsError"]
  ELSE MkdirFrom(ds, fs, IF p.abs THEN << >> ELSE Cwd, p.parts, 1, FALSE,
                 exist_ok, failAt)

\* a write that leaves nothing else in the filesystem
Put_Alone(fs, loc, content) == [f \in {loc} |-> content]

\* the filesystem with content at loc
Put(fs, loc, content) ==
  [f \in DOMAIN fs \cup {loc} |-> IF f = loc THEN content ELSE fs[f]]

\* Path.write_text(content): open for writing (truncating), write, close.
\* fail is "no", "open" (the open is refused) or "write" (the write is
\* refused after the file was truncated).
WriteText(ds, fs, p, content, fail) ==
  LET loc == Resolve(p)
  IN  IF Resolve(Parent(p)) \notin ds THEN [files |-> fs, err |-> "FileNotFoundError"]
      ELSE IF loc \in ds THEN [files |-> fs, err |-> "IsADirectoryError"]
      ELSE IF fail = "open" THEN [files |-> fs, err |-> "OSError"]
      ELSE IF fail = "write" THEN [files |-> Put(fs, loc, << >>), err |-> "OSError"]
      ELSE [files |-> Put(fs, loc, content), err |-> None]

\* ----------------------------------------------------- KotlinProjectSetup
\* package.replace(".", "/", 1): the first dot only
PackagePath_FirstDot(p) ==
  [j \in 1..Len(p) |->
     IF p[j] = "." /\ \A h \in 1..(j - 1) : p[h] # "." THEN "/" ELSE p[j]]

\* __init__: self.package_path
PackagePath(p) == Replace(p, ".", "/")

\* __init__: self.output_dir
OutputDir(o, n) == Join(Path(o), n)

Kotlin == << "app", "/", "src", "/", "main", "/", "kotlin", "/" >>
TestKotlin == << "app", "/", "src", "/", "test", "/", "kotlin", "/" >>
AndroidTestKotlin == << "app", "/", "src", "/", "androidTest", "/", "kotlin", "/" >>

\* create_structure: the list of directories
directories ==
  << Kotlin \o package_path,
     Kotlin \o package_path \o << "/", "data", "/", "repository" >>,
     Kotlin \o package_path \o << "/", "data", "/", "local" >>,
     Kotlin \o package_path \o << "/", "data", "/", "remote" >>,
     Kotlin \o package_path \o << "/", "domain", "/", "model" >>,
     Kotlin \o package_path \o << "/", "domain", "/", "usecase" >>,
     Kotlin \o package_path \o << "/", "ui", "/", "theme" >>,
     Kotlin \o package_path \o << "/", "ui", "/", "components" >>,
     Kotlin \o package_path \o << "/", "ui", "/", "screens" >>,
     Kotlin \o package_path \o << "/", "di" >>,
     << "app", "/", "src", "/", "main", "/", "res", "/", "values" >>,
     TestKotlin \o package_path,
     AndroidTestKotlin \o package_path,
     << "buildSrc", "/", "src", "/", "main", "/", "kotlin" >> >>

\* mkdir(parents=True) with exist_ok left out
MkdirPlanned_NoExistOk(ds, fs, target, failAt) == Mkdir(ds, fs, target, FALSE, failAt)

\* create_structure: (self.output_dir / dir_path).mkdir(parents=True, exist_ok=True)
MkdirPlanned(ds, fs, target, failAt) == Mkdir(ds, fs, target, TRUE, failAt)

\* root_build: lines 58-69, one element per line of the text
root_build ==
  << "plugins {",
     "    id(\"com.android.application\") version \"8.2.0\" apply false",
     "    id(\"com.android.library\") version \"8.2.0\" apply false",
     "    id(\"org.jetbrains.kotlin.android\") version \"" \o KOTLIN_VERSION \o "\" apply false",
     "    id(\"com.google.dagger.hilt.android\") version \"2.48\" apply false",
     "    id(\"com.google.devtools.ksp\") version \"" \o KOTLIN_VERSION \o "-1.0.15\" apply false",
     "}",
     "",
     "tasks.register(\"clean\", Delete::class) {",
     "    delete(rootProject.layout.buildDirectory)",
     "}" >>

\* app_build: what namespace is given
Namespace == Str(package)

\* the package path given in the package's place
ApplicationId_Path == Str(package_path)

\* app_build: what applicationId is given
ApplicationId == Str(package)

\* app_build: lines 73-163, one element per line of the text
app_build ==
  << "plugins {",
     "    id(\"com.android.application\")",
     "    id(\"org.jetbrains.kotlin.android\")",
     "    id(\"com.google.dagger.hilt.android\")",
     "    id(\"com.google.devtools.ksp\")",
     "}",
     "",
     "android {",
     "    namespace = \"" \o Namespace \o "\"",
     "    compileSdk = " \o ToString(TARGET_SDK),
     "",
     "    defaultConfig {",
     "        applicationId = \"" \o ApplicationId \o "\"",
     "        minSdk = " \o ToString(MIN_SDK),
     "        targetSdk = " \o ToString(TARGET_SDK),
     "        versionCode = 1",
     "        versionName = \"1.0.0\"",
     "",
     "        testInstrumentationRunner = \"androidx.test.runner.AndroidJUnitRunner\"",
     "    }",
     "",
     "    buildTypes {",
     "        release {",
     "            isMinifyEnabled = true",
     "            isShrinkResources = true",
     "            proguardFiles(",
     "                getDefaultProguardFile(\"proguard-android-optimize.txt\"),",
     "                \"proguard-rules.pro\"",
     "            )",
     "        }",
     "    }",
     "",
     "    compileOptions {",
     "        sourceCompatibility = JavaVersion.VERSION_17",
     "        targetCompatibility = JavaVersion.VERSION_17",
     "    }",
     "",
     "    kotlinOptions {",
     "        jvmTarget = \"17\"",
     "    }",
     "",
     "    buildFeatures {",
     "        compose = true",
     "    }",
     "",
     "    composeOptions {",
     "        kotlinCompilerExtensionVersion = \"1.5.7\"",
     "    }",
     "}",
     "",
     "dependencies {",
     "    // Compose BOM",
     "    val composeBom = platform(\"androidx.compose:compose-bom:" \o COMPOSE_BOM \o "\")",
     "    implementation(composeBom)",
     "    androidTestImplementation(composeBom)",
     "",
     "    // Compose",
     "    implementation(\"androidx.compose.ui:ui\")",
     "    implementation(\"androidx.compose.ui:ui-tooling-preview\")",
     "    implementation(\"androidx.compose.material3:material3\")",
     "    implementation(\"androidx.activity:activity-compose:1.8.2\")",
     "    implementation(\"androidx.lifecycle:lifecycle-viewmodel-compose:2.7.0\")",
     "    implementation(\"androidx.navigation:navigation-compose:2.7.6\")",
     "",
     "    // Hilt",
     "    implementation(\"com.google.dagger:hilt-android:2.48\")",
     "    ksp(\"com.google.dagger:hilt-compiler:2.48\")",
     "    implementation(\"androidx.hilt:hilt-navigation-compose:1.1.0\")",
     "",
     "    // Coroutines",
     "    implementation(\"org.jetbrains.kotlinx:kotlinx-coroutines-android:1.7.3\")",
     "",
     "    // Room",
     "    implementation(\"androidx.room:room-runtime:2.6.1\")",
     "    implementation(\"androidx.room:room-ktx:2.6.1\")",
     "    ksp(\"androidx.room:room-compiler:2.6.1\")",
     "",
     "    // Retrofit",
     "    implementation(\"com.squareup.retrofit2:retrofit:2.9.0\")",
     "    implementation(\"com.squareup.retrofit2:converter-gson:2.9.0\")",
     "    implementation(\"com.squareup.okhttp3:logging-interceptor:4.12.0\")",
     "",
     "    // Testing",
     "    testImplementation(\"junit:junit:4.13.2\")",
     "    testImplementation(\"io.mockk:mockk:1.13.8\")",
     "    testImplementation(\"org.jetbrains.kotlinx:kotlinx-coroutines-test:1.7.3\")",
     "    androidTestImplementation(\"androidx.test.ext:junit:1.1.5\")",
     "    androidTestImplementation(\"androidx.compose.ui:ui-test-junit4\")",
     "    debugImplementation(\"androidx.compose.ui:ui-tooling\")",
     "}" >>

\* settings: lines 167-185, one element per line of the text
settings ==
  << "pluginManagement {",
     "    repositories {",
     "        google()",
     "        mavenCentral()",
     "        gradlePluginPortal()",
     "    }",
     "}",
     "",
     "dependencyResolutionManagement {",
     "    repositoriesMode.set(RepositoriesMode.FAIL_ON_PROJECT_REPOS)",
     "    repositories {",
     "        google()",
     "        mavenCentral()",
     "    }",
     "}",
     "",
     "rootProject.name = \"" \o Str(name) \o "\"",
     "include(\":app\")" >>

\* the application stub carrying a note of where it was generated
app_class_Stamped ==
  << "package " \o Str(package),
     "",
     "import android.app.Application",
     "import dagger.hilt.android.HiltAndroidApp",
     "",
     "@HiltAndroidApp",
     "class " \o Str(name) \o "Application : Application()",
     "// generated in " \o PathStr(output_dir) >>

\* the application stub with the class named after the package
app_class_ByPackage ==
  << "package " \o Str(package),
     "",
     "import android.app.Application",
     "import dagger.hilt.android.HiltAndroidApp",
     "",
     "@HiltAndroidApp",
     "class " \o Str(package) \o "Application : Application()" >>

\* the application stub with a default for an empty name
app_class_Defaulted ==
  << "package " \o Str(package),
     "",
     "import android.app.Application",
     "import dagger.hilt.android.HiltAndroidApp",
     "",
     "@HiltAndroidApp",
     "class " \o (IF name = << >> THEN "My" ELSE Str(name))
       \o "Application : Application()" >>

\* app_class: lines 190-197, one element per line of the text
app_class ==
  << "package " \o Str(package),
     "",
     "import android.app.Application",
     "import dagger.hilt.android.HiltAndroidApp",
     "",
     "@HiltAndroidApp",
     "class " \o Str(name) \o "Application : Application()" >>

\* main_activity: lines 205-233, one element per line of the text
main_activity ==
  << "package " \o Str(package),
     "",
     "import android.os.Bundle",
     "import androidx.activity.ComponentActivity",
     "import androidx.activity.compose.setContent",
     "import androidx.compose.foundation.layout.fillMaxSize",
     "import androidx.compose.material3.MaterialTheme",
     "import androidx.compose.material3.Surface",
     "import androidx.compose.ui.Modifier",
     "import dagger.hilt.android.AndroidEntryPoint",
     "import " \o Str(package) \o ".ui.theme." \o Str(name) \o "Theme",
     "",
     "@AndroidEntryPoint",
     "class MainActivity : ComponentActivity() {",
     "    override fun onCreate(savedInstanceState: Bundle?) {",
     "        super.onCreate(savedInstanceState)",
     "        setContent {",
     "            " \o Str(name) \o "Theme {",
     "                Surface(",
     "                    modifier = Modifier.fillMaxSize(),",
     "                    color = MaterialTheme.colorScheme.background",
     "                ) {",
     "                    // Navigation or main content here",
     "                }",
     "            }",
     "        }",
     "    }",
     "}" >>

\* manifest: lines 241-266, one element per line of the text
manifest ==
  << "<?xml version=\"1.0\" encoding=\"utf-8\"?>",
     "<manifest xmlns:android=\"http://schemas.android.com/apk/res/android\">",
     "",
     "    <uses-permission android:name=\"android.permission.INTERNET\" />",
     "",
     "    <application",
     "        android:name=\"." \o Str(name) \o "Application\"",
     "        android:allowBackup=\"true\"",
     "        android:icon=\"@mipmap/ic_launcher\"",
     "        android:label=\"@string/app_name\"",
     "        android:roundIcon=\"@mipmap/ic_launcher_round\"",
     "        android:supportsRtl=\"true\"",
     "        android:theme=\"@style/Theme." \o Str(name) \o "\">",
     "        <activity",
     "            android:name=\".MainActivity\"",
     "            android:exported=\"true\"",
     "            android:theme=\"@style/Theme." \o Str(name) \o "\">",
     "            <intent-filter>",
     "                <action android:name=\"android.intent.action.MAIN\" />",
     "                <category android:name=\"android.intent.category.LAUNCHER\" />",
     "            </intent-filter>",
     "        </activity>",
     "    </application>",
     "",
     "</manifest>" >>

\* setup() calling create_manifest before create_main_activity
write_calls_ManifestFirst ==
  << [path |-> << "build", ".", "gradle", ".", "kts" >>, content |-> "root_build"],
     [path |-> << "app", "/", "build", ".", "gradle", ".", "kts" >>,
      content |-> "app_build"],
     [path |-> << "settings", ".", "gradle", ".", "kts" >>, content |-> "settings"],
     [path |-> Kotlin \o package_path \o << "/" >> \o name
                 \o << "Application", ".", "kt" >>,
      content |-> "app_class"],
     [path |-> << "app", "/", "src", "/", "main", "/", "AndroidManifest", ".", "xml" >>,
      content |-> "manifest"],
     [path |-> Kotlin \o package_path \o << "/", "MainActivity", ".", "kt" >>,
      content |-> "main_activity"] >>

\* the six _write_file calls of setup(), in the order it makes them:
\* create_build_files (three), create_application_class,
\* create_main_activity, create_manifest
write_calls ==
  << [path |-> << "build", ".", "gradle", ".", "kts" >>, content |-> "root_build"],
     [path |-> << "app", "/", "build", ".", "gradle", ".", "kts" >>,
      content |-> "app_build"],
     [path |-> << "settings", ".", "gradle", ".", "kts" >>, content |-> "settings"],
     [path |-> Kotlin \o package_path \o << "/" >> \o name
                 \o << "Application", ".", "kt" >>,
      content |-> "app_class"],
     [path |-> Kotlin \o package_path \o << "/", "MainActivity", ".", "kt" >>,
      content |-> "main_activity"],
     [path |-> << "app", "/", "src", "/", "main", "/", "AndroidManifest", ".", "xml" >>,
      content |-> "manifest"] >>

\* the text each call is given
Render(t) ==
  CASE t = "root_build" -> root_build
    [] t = "app_build" -> app_build
    [] t = "settings" -> settings
    [] t = "app_class" -> app_class
    [] t = "main_activity" -> main_activity
    [] t = "manifest" -> manifest

\* _write_file: file_path
FilePath(od, path) == Join(od, path)

\* _write_file: file_path.parent.mkdir(parents=True, exist_ok=True)
MkdirParent(ds, fs, fp, failAt) == Mkdir(ds, fs, Parent(fp), TRUE, failAt)

\* the exception caught and the run going on where it was
Raise_Swallowed(e) == [pc |-> pc, error |-> e]

\* what an exception raised in setup() does: nothing catches it
Raise(e) == [pc |-> "aborted", error |-> e]

\* --------------------------------------------------------------- inputs
RECURSIVE Up(_)
Up(n) == IF n = 0 THEN << "x" >> ELSE << ".", ".", "/" >> \o Up(n - 1)

RECURSIVE Pkg(_)
Pkg(m) ==
  IF m = 0 THEN << >>
  ELSE IF m = 1 THEN << "p1" >>
  ELSE Pkg(m - 1) \o << ".", "p" \o ToString(m) >>

Names == { << >>, << "Foo" >>, << "a", "/", "b" >>, Up(MaxUp) }
Packages == { Pkg(m) : m \in 0..MaxSegs }
Outputs == { << "." >>, << "out" >> }

\* every directory on the way to a member of S, "/" included
Closure(S) == UNION { { SubSeq(d, 1, n) : n \in 0..Len(d) } : d \in S }

NoFiles == [f \in {} |-> << >>]

\* the filesystems a first run can meet: nothing but the working directory;
\* an output root holding a file of the user's and an older settings file;
\* an output root where a file named app stands in the way
PreDirs(n, kind) ==
  IF kind = 1 THEN Closure({Cwd})
  ELSE Closure({Cwd, Resolve(OutputDir(<< "." >>, n))})

PreFiles(n, kind) ==
  LET root == Resolve(OutputDir(<< "." >>, n))
  IN  IF kind = 1 THEN NoFiles
      ELSE IF kind = 2
      THEN (Append(root, "notes.txt") :> << "mine" >>)
             @@ (Append(root, "settings.gradle.kts") :> << "old" >>)
      ELSE (Append(root, "app") :> << "not a directory" >>)

\* ------------------------------------------------------------ the machine
\* prev before any run has completed
NoRun == [ran |-> FALSE, output_dir |-> Path(<< >>), clean |-> FALSE, result |-> {}]

Init ==
  /\ name \in Names
  /\ package \in Packages
  /\ \E kind \in 1..3 : dirs = PreDirs(name, kind) /\ files = PreFiles(name, kind)
  /\ package_path = << >>
  /\ output_dir = Path(<< >>)
  /\ pc = "idle"
  /\ i = 0
  /\ k = 0
  /\ error = None
  /\ stdout = << >>
  /\ ops = << >>
  /\ start = [dirs |-> dirs, files |-> files]
  /\ prev = NoRun

\* nothing lies below the output root od in the filesystem (ds, fs)
CleanRoot(od, ds, fs) ==
  LET root == Resolve(od)
  IN  \A f \in ds \cup DOMAIN fs : ~(IsPrefix(root, f) /\ f # root)

\* what a completed run left at its six file paths, by relative path
Result(od, fs) ==
  { << Str(write_calls[j].path), fs[Resolve(FilePath(od, write_calls[j].path))] >> :
      j \in 1..Len(write_calls) }

\* main(): parse_args, KotlinProjectSetup(name, package, output), and the
\* first print of setup().  The same command line is run again after a
\* run that completed, with any output directory.
Construct(o) ==
  /\ pc \in {"idle", "done"}
  /\ package_path' = PackagePath(package)
  /\ output_dir' = OutputDir(o, name)
  /\ pc' = "create_structure"
  /\ i' = 0
  /\ k' = 0
  /\ error' = None
  /\ stdout' = << "", "=== Creating " \o Str(name) \o " Android Project ===", "" >>
  /\ ops' = << >>
  /\ start' = [dirs |-> dirs, files |-> files]
  /\ prev' = IF pc = "done"
             THEN [ran |-> TRUE, output_dir |-> output_dir,
                   clean |-> CleanRoot(output_dir, start.dirs, start.files),
                   result |-> Result(output_dir, files)]
             ELSE prev
  /\ UNCHANGED << name, package, dirs, files >>

\* create_structure: one turn of the loop over directories
CreateDirectory ==
  /\ pc = "create_structure"
  /\ i < Len(directories)
  /\ \E d \in {directories[i + 1]} :
     \E target \in {Join(output_dir, d)} :
     \E failAt \in 0..Len(target.parts) :
     \E r \in {MkdirPlanned(dirs, files, target, failAt)} :
       /\ dirs' = r.dirs
       /\ IF r.err = None
          THEN /\ i' = i + 1
               /\ stdout' = Append(stdout, "Created: " \o Str(d))
               /\ ops' = Append(ops, [op |-> "mkdir", what |-> "directory",
                                      path |-> Str(d), at |-> Resolve(target)])
               /\ pc' = IF i + 1 = Len(directories) THEN "write_files" ELSE pc
               /\ error' = error
          ELSE /\ pc' = Raise(r.err).pc
               /\ error' = Raise(r.err).error
               /\ UNCHANGED << i, stdout, ops >>
  /\ UNCHANGED << name, package, package_path, output_dir, k, files, start, prev >>

\* _write_file, as setup() calls it for the k+1st time
WriteFile ==
  /\ pc = "write_files"
  /\ k < Len(write_calls)
  /\ \E c \in {write_calls[k + 1]} :
     \E fp \in {FilePath(output_dir, c.path)} :
     \E failAt \in 0..Len(Parent(fp).parts) :
     \E fail \in IF failAt = 0 THEN {"no", "open", "write"} ELSE {"no"} :
     \E m \in {MkdirParent(dirs, files, fp, failAt)} :
     \E w \in {WriteText(m.dirs, files, fp, Render(c.content), fail)} :
       /\ dirs' = m.dirs
       /\ IF m.err # None
          THEN /\ pc' = Raise(m.err).pc
               /\ error' = Raise(m.err).error
               /\ UNCHANGED << k, files, stdout, ops >>
          ELSE /\ files' = w.files
               /\ IF w.err # None
                  THEN /\ pc' = Raise(w.err).pc
                       /\ error' = Raise(w.err).error
                       /\ UNCHANGED << k, stdout, ops >>
                  ELSE /\ k' = k + 1
                       /\ stdout' = Append(stdout, "Created: " \o Str(c.path))
                       /\ ops' = Append(ops, [op |-> "write", what |-> c.content,
                                              path |-> Str(c.path),
                                              at |-> Resolve(fp)])
                       /\ pc' = IF k + 1 = Len(write_calls) THEN "finish" ELSE pc
                       /\ error' = error
  /\ UNCHANGED << name, package, package_path, output_dir, i, start, prev >>

Banner == "=== Project " \o Str(name) \o " created successfully! ==="

\* setup(): the closing prints
Finish ==
  /\ pc = "finish"
  /\ stdout' = stdout \o
       << "", Banner,
          "Location: " \o PathStr([abs |-> TRUE,
                                   parts |-> IF output_dir.abs THEN output_dir.parts
                                             ELSE Cwd \o output_dir.parts]),
          "", "Next steps:",
          "  1. cd " \o PathStr(output_dir),
          "  2. Open in Android Studio",
          "  3. Sync Gradle and run!" >>
  /\ pc' = "done"
  /\ UNCHANGED << name, package, package_path, output_dir, i, k, error,
                  dirs, files, ops, start, prev >>

Next ==
  \/ \E o \in Outputs : Construct(o)
  \/ CreateDirectory
  \/ WriteFile
  \/ Finish

Spec == Init /\ [][Next]_vars


\* ------------------------------------------------------------ properties
Range(f) == { f[j] : j \in DOMAIN f }

Root == Resolve(output_dir)

\* the directory of the package below the output root
PackageDir == Resolve(Join(output_dir, Kotlin \o package_path))

\* the places of the six files of the current run
SixLocs ==
  { Resolve(FilePath(output_dir, write_calls[j].path)) : j \in 1..Len(write_calls) }

IsWrite(e) == e.op = "write"
IsMkdir(e) == e.op = "mkdir"

\* the run in progress repeats the previous run: same name, package and
\* output directory, on the filesystem that run left
Rerun == prev.ran /\ prev.output_dir = output_dir

\* C1: a second run with the same name, package and output directory on
\* the tree a successful run left raises nothing of its own (a refusal by
\* the operating system aside) and leaves the six files as the first run
\* left them.
C1_RerunSameContent ==
  Rerun => /\ error \in {None, "OSError"}
           /\ \A j \in 1..Len(directories) :
                Resolve(Join(output_dir, directories[j])) \in start.dirs
           /\ pc = "done" => Result(output_dir, files) = prev.result

C1_Witness == Rerun /\ pc = "done"

\* the text of the package with its dots turned to slashes, token by token
RECURSIVE Slashed(_)
Slashed(p) ==
  IF p = << >> THEN ""
  ELSE (IF Head(p) = "." THEN "/" ELSE Head(p)) \o Slashed(Tail(p))

\* the skeleton of create_structure: a prefix, whether the package path
\* follows, and a suffix
Skeleton ==
  << << "app/src/main/kotlin/", TRUE, "" >>,
     << "app/src/main/kotlin/", TRUE, "/data/repository" >>,
     << "app/src/main/kotlin/", TRUE, "/data/local" >>,
     << "app/src/main/kotlin/", TRUE, "/data/remote" >>,
     << "app/src/main/kotlin/", TRUE, "/domain/model" >>,
     << "app/src/main/kotlin/", TRUE, "/domain/usecase" >>,
     << "app/src/main/kotlin/", TRUE, "/ui/theme" >>,
     << "app/src/main/kotlin/", TRUE, "/ui/components" >>,
     << "app/src/main/kotlin/", TRUE, "/ui/screens" >>,
     << "app/src/main/kotlin/", TRUE, "/di" >>,
     << "app/src/main/res/values", FALSE, "" >>,
     << "app/src/test/kotlin/", TRUE, "" >>,
     << "app/src/androidTest/kotlin/", TRUE, "" >>,
     << "buildSrc/src/main/kotlin", FALSE, "" >> >>

Planned(p) ==
  [j \in 1..Len(Skeleton) |->
     Skeleton[j][1] \o (IF Skeleton[j][2] THEN Slashed(p) ELSE "") \o Skeleton[j][3]]

Mkdirs == SelectSeq(ops, IsMkdir)
Writes == SelectSeq(ops, IsWrite)

\* C2: the planned directories are all made before the first file is
\* written, and the files are written once each in the order root build,
\* module build, settings, application stub, main activity, manifest.
FileOrder ==
  << "root_build", "app_build", "settings", "app_class", "main_activity", "manifest" >>

C2_DirectoriesThenSixFiles ==
  /\ \A a, b \in 1..Len(ops) : IsMkdir(ops[a]) /\ IsWrite(ops[b]) => a < b
  /\ Writes # << >> => Len(Mkdirs) = Len(Skeleton)
  /\ Len(Writes) <= Len(FileOrder)
  /\ \A j \in 1..Len(Writes) : Writes[j].what = FileOrder[j]
  /\ \A a, b \in 1..Len(Writes) : a # b => Writes[a].at # Writes[b].at
  /\ pc \in {"finish", "done"} => Len(Writes) = Len(FileOrder)

C2_Witness == pc = "done" /\ Len(Writes) = 6 /\ Len(Mkdirs) = 14

\* C3: once a filesystem operation has failed the run is over: nothing
\* further can happen, the success banner is not printed, and what the
\* earlier steps made is still there as they made it.
C3_AbortKeepsPartialTree ==
  error # None =>
    /\ pc = "aborted"
    /\ ~ENABLED (CreateDirectory \/ WriteFile \/ Finish)
    /\ Banner \notin Range(stdout)
    /\ start.dirs \subseteq dirs
    /\ \A j \in 1..Len(ops) :
         IF IsMkdir(ops[j]) THEN ops[j].at \in dirs
         ELSE ops[j].at \in DOMAIN files /\ files[ops[j].at] = Render(ops[j].what)

C3_Witness == error = "OSError" /\ Len(Writes) >= 2 /\ pc = "aborted"

\* C4: the directories create_structure plans are the skeleton with the
\* package, dots turned to slashes, in the package's place, whatever the
\* name and the output directory are.
C4_PlannedDirectories ==
  pc # "idle" =>
    /\ Len(directories) = Len(Skeleton)
    /\ \A j \in 1..Len(Skeleton) : Str(directories[j]) = Planned(package)[j]
    /\ \A j \in 1..Len(Mkdirs) : Mkdirs[j].path = Planned(package)[j]

C4_Witness ==
  /\ pc = "done"
  /\ package = << "p1", ".", "p2", ".", "p3" >>
  /\ Mkdirs[2].path = "app/src/main/kotlin/p1/p2/p3/data/repository"

\* C5: two runs with the same name and package, each on a clean output
\* root, leave the same files with the same content.
C5_CleanRunsAgree ==
  ( /\ pc = "done"
    /\ prev.ran
    /\ prev.clean
    /\ CleanRoot(output_dir, start.dirs, start.files) )
  => Result(output_dir, files) = prev.result

C5_Witness ==
  /\ pc = "done"
  /\ prev.ran
  /\ prev.clean
  /\ CleanRoot(output_dir, start.dirs, start.files)
  /\ prev.output_dir # output_dir
  /\ Resolve(prev.output_dir) # Root


N == Str(name)

HasLine(f, line) == f \in DOMAIN files /\ line \in Range(files[f])

NoSeparator(s) == \A j \in 1..Len(s) : s[j] # "/"

\* what C6 and C8 say of the text of the three files that carry the name
NameInTexts(stub, activity, manifestAt) ==
  /\ HasLine(stub, "class " \o N \o "Application : Application()")
  /\ HasLine(manifestAt, "        android:name=\"." \o N \o "Application\"")
  /\ HasLine(activity, "import " \o Str(package) \o ".ui.theme." \o N \o "Theme")
  /\ HasLine(activity, "            " \o N \o "Theme {")

\* C6 as stated: for every name the application stub is a file named
\* <name>Application.kt in the package directory that declares the class
\* <name>Application, the manifest names .<name>Application and the main
\* activity the theme <name>Theme.
C6_StubNamedInPackageDir ==
  pc = "done" =>
    NameInTexts(Append(PackageDir, N \o "Application.kt"),
                Append(PackageDir, "MainActivity.kt"),
                Root \o << "app", "src", "main", "AndroidManifest.xml" >>)

\* C6, amended: for every name the application stub is written to the
\* relative path app/src/main/kotlin/<package path>/<name>Application.kt,
\* which is a file of that name in the package directory when the name has
\* no path separator; it declares the class <name>Application, the manifest
\* names .<name>Application and the main activity the theme <name>Theme.
C6_StubAtInterpolatedPath ==
  pc = "done" =>
    /\ Writes[4].path = "app/src/main/kotlin/" \o Slashed(package) \o "/"
                          \o N \o "Application.kt"
    /\ NoSeparator(name) => Writes[4].at = Append(PackageDir, N \o "Application.kt")
    /\ NameInTexts(Writes[4].at,
                   Append(PackageDir, "MainActivity.kt"),
                   Root \o << "app", "src", "main", "AndroidManifest.xml" >>)

C6_Witness ==
  /\ pc = "done"
  /\ name = << "Foo" >>
  /\ HasLine(Append(PackageDir, "FooApplication.kt"),
             "class FooApplication : Application()")
  /\ HasLine(Append(PackageDir, "MainActivity.kt"), "            FooTheme {")

\* C7: the module build file gives the package, dots and all, as namespace
\* and as applicationId.
C7_PackageVerbatim ==
  pc = "done" =>
    /\ HasLine(Root \o << "app", "build.gradle.kts" >>,
               "    namespace = \"" \o Str(package) \o "\"")
    /\ HasLine(Root \o << "app", "build.gradle.kts" >>,
               "        applicationId = \"" \o Str(package) \o "\"")

C7_Witness ==
  /\ pc = "done"
  /\ HasLine(Root \o << "app", "build.gradle.kts" >>, "    namespace = \"p1.p2.p3\"")
  /\ HasLine(Root \o << "app", "build.gradle.kts" >>,
             "        applicationId = \"p1.p2.p3\"")

\* C8: with the empty name nothing is validated: the only errors are the
\* filesystem's, and a run that meets none writes the six files with the
\* empty string in the name's place.
C8_EmptyName ==
  name = << >> =>
    /\ error \in {None, "OSError", "FileExistsError", "NotADirectoryError",
                  "IsADirectoryError"}
    /\ pc = "done" =>
         /\ SixLocs \subseteq DOMAIN files
         /\ Len(Writes) = 6
         /\ HasLine(Append(PackageDir, "Application.kt"),
                    "class Application : Application()")
         /\ HasLine(Append(PackageDir, "MainActivity.kt"), "            Theme {")
         /\ HasLine(Root \o << "app", "src", "main", "AndroidManifest.xml" >>,
                    "        android:name=\".Application\"")
         /\ HasLine(Append(Root, "settings.gradle.kts"), "rootProject.name = \"\"")

C8_Witness == name = << >> /\ pc = "done" /\ error = None

\* the directories that the path of the output root itself passes through
RootWay ==
  { Walk(IF output_dir.abs THEN << >> ELSE Cwd, SubSeq(output_dir.parts, 1, n)) :
      n \in 0..Len(output_dir.parts) }

\* C9: every file the run writes lies below the output root, and so does
\* every directory it makes, those that lead to the root itself aside.
C9_EverythingUnderRoot ==
  /\ \A j \in 1..Len(Writes) : IsPrefix(Root, Writes[j].at)
  /\ pc # "idle" => \A d \in dirs \ start.dirs : IsPrefix(Root, d) \/ d \in RootWay

\* C10: a run removes nothing, and a file that was there before it and is
\* not one of the six keeps its content, whether the run completes or not.
C10_OtherFilesUntouched ==
  pc # "idle" =>
    /\ start.dirs \subseteq dirs
    /\ DOMAIN start.files \subseteq DOMAIN files
    /\ \A f \in DOMAIN start.files : files[f] # start.files[f] => f \in SixLocs

C10_Witness ==
  /\ pc \in {"done", "aborted"}
  /\ Len(Writes) >= 3
  /\ \E f \in DOMAIN start.files :
       f \notin SixLocs /\ IsPrefix(Root, f) /\ files[f] = << "mine" >>
  /\ \E f \in DOMAIN start.files : f \in SixLocs /\ files[f] # start.files[f]

====
